---- MODULE Spec2Model ----
(***************************************************************************)
(* Adler-32 over one byte buffer, as computed by the three translation     *)
(* units of the repository: adler32_simple.c (byte-at-a-time),             *)
(* adler32_block.c (reduction deferred to 5552-byte blocks) and            *)
(* adler32_neon.c (16-byte NEON chunks inside 5552-byte blocks).           *)
(* Every engine is run on the same buffer, one after the other, and its    *)
(* returned value is kept so that the results can be compared.             *)
(*                                                                         *)
(* C unsigned integers are kept as four 16-bit limbs, least significant    *)
(* first, so that a uint32_t (two limbs) or a size_t (two or four limbs,   *)
(* by target) wraps exactly as the machine value does.                     *)
(***************************************************************************)
EXTENDS Integers, Sequences, FiniteSets, TLC

(* ---------------- bounds of the explored inputs ---------------- *)

\* Largest number of full 5552-byte blocks in an input buffer.
MaxBlocks == 2

(* ---------------- program constants ---------------- *)

MOD_ADLER == 65521
BLOCK_SIZE == 5552
NEON_BLOCK_SIZE == 5552
NEON_CHUNK_SIZE == 16
SHORT_LEN == 16
VECTOR_MIN_LEN == 16

(* ---------------- machine integers ---------------- *)

Base == 2 ^ 16
Limbs == 1 .. 4
Zero == <<0, 0, 0, 0>>

\* The unsigned value n (0 <= n < 2^31) as limbs.
FromNat(n) == <<n % Base, (n \div Base) % Base, 0, 0>>

\* Carry propagation of limb-wise results, modulo 2^64.
Norm(r) ==
    LET t2 == r[2] + (r[1] \div Base)
        t3 == r[3] + (t2 \div Base)
        t4 == r[4] + (t3 \div Base)
    IN  <<r[1] % Base, t2 % Base, t3 % Base, t4 % Base>>

\* Keep the low w limbs: conversion to an unsigned type of 16*w bits.
Trunc(x, w) == [k \in Limbs |-> IF k <= w THEN x[k] ELSE 0]

\* Exact sum, product by a small constant, and halving (no wrap below 2^64).
WAdd(a, b) == Norm([k \in Limbs |-> a[k] + b[k]])
WMulSmall(a, c) == Norm([k \in Limbs |-> a[k] * c])
WDiv2(a) == [k \in Limbs |->
               (a[k] \div 2) + (IF k < 4 THEN (a[k + 1] % 2) * (Base \div 2) ELSE 0)]
\* a - b modulo 2^64 (two's complement: a + ~b + 1).
WSub(a, b) == Norm([k \in Limbs |-> a[k] + (Base - 1 - b[k]) + (IF k = 1 THEN 1 ELSE 0)])

\* a <= b as unsigned values.
WLeq(a, b) ==
    \/ a = b
    \/ \E k \in Limbs : a[k] < b[k] /\ \A j \in Limbs : j > k => a[j] = b[j]

\* a % MOD_ADLER, through 2^16k % MOD_ADLER.
WMod(a) ==
    LET p1 == Base % MOD_ADLER
        p2 == (p1 * p1) % MOD_ADLER
        p3 == (p2 * p1) % MOD_ADLER
    IN  FromNat((a[1] + p1 * a[2] + p2 * a[3] + p3 * a[4]) % MOD_ADLER)

\* uint32_t arithmetic: the exact result truncated to 32 bits.
U32Add(a, b) == Trunc(WAdd(a, b), 2)
U32Mul(a, c) == Trunc(WMulSmall(a, c), 2)
\* TRUE when the exact sum of two uint32_t does not fit in 32 bits.
U32Carry(a, b) == WAdd(a, b) # U32Add(a, b)

RECURSIVE BitOr(_, _)
BitOr(a, b) ==
    IF a = 0 THEN b
    ELSE IF b = 0 THEN a
    ELSE (IF a % 2 = 1 \/ b % 2 = 1 THEN 1 ELSE 0) + 2 * BitOr(a \div 2, b \div 2)

\* x << 16 on a uint32_t: the high half is shifted out.
U32Shl16(x) == <<0, x[1], 0, 0>>
U32Or(a, b) == [k \in Limbs |-> BitOr(a[k], b[k])]

\* Fault variant of Pack: the two halves exchanged.
PackSwapped(hi, lo) == U32Or(U32Shl16(lo), hi)

\* return (s2 << 16) | s1;
Pack(hi, lo) == U32Or(U32Shl16(hi), lo)

(* ---------------- input buffers ---------------- *)

\* The nine ASCII bytes of "Wikipedia".
Wikipedia == <<87, 105, 107, 105, 112, 101, 100, 105, 97>>

ShortLens == {0, 1, SHORT_LEN - 1, SHORT_LEN, SHORT_LEN + 1}
LongLens == {k * BLOCK_SIZE + d : k \in 1 .. MaxBlocks, d \in {-1, 0, 1}}
\* Byte patterns: data[k] = (base + stride * k) mod 256.
Bases == {65, 255}
Strides == {0, 1}

\* A first block after which s1 = s2 = 65520 (256 bytes of 255, one byte of 239,
\* zeros elsewhere), followed by bytes of 255: the largest sums a block can reach.
Saturating(k) ==
    IF k >= BLOCK_SIZE \/ k < 256 THEN 255
    ELSE IF k = 1339 THEN 239
    ELSE 0

Inputs ==
    [kind : {"pattern"}, len : ShortLens \cup LongLens, base : Bases, stride : Strides]
    \cup {[kind |-> "wikipedia", len |-> Len(Wikipedia), base |-> 0, stride |-> 0]}
    \cup {[kind |-> "saturating", len |-> 2 * BLOCK_SIZE, base |-> 0, stride |-> 0]}

Engines == {"simple", "block", "neon"}
NoResult == <<>>

VARIABLES
    input,      \* the caller's buffer (data, len), fixed for the run
    sizeLimbs,  \* width of size_t on the target: 2 limbs (ILP32) or 4 (LP64)
    pc,         \* position in the engine being run
    s1, s2,     \* uint32_t accumulators of the running engine
    i,          \* size_t index of the running engine
    len,        \* the running engine's len parameter (adler32_neon.c decrements it)
    blocks, remaining, block,      \* adler32_block.c locals
    block_len, block_s1, block_s2, \* adler32_neon.c locals (four uint32 lanes each)
    result,     \* value returned by each engine, NoResult before it returns
    reads,      \* number of input bytes each engine has loaded
    wrapped,    \* a uint32_t addition of an accumulator or lane lost a carry
    minuend, subtrahend  \* operands of the last size_t subtraction in adler32_neon.c
vars == <<input, sizeLimbs, pc, s1, s2, i, len, blocks, remaining, block,
          block_len, block_s1, block_s2, result, reads, wrapped, minuend, subtrahend>>

\* data[k], 0-based as in C.
Data(k) ==
    CASE input.kind = "wikipedia" -> Wikipedia[k + 1]
      [] input.kind = "saturating" -> Saturating(k)
      [] OTHER -> (input.base + input.stride * k) % 256

\* Fault variant of ScalarFold: s2 takes s1 as it was before the byte was added.
ScalarFoldStale(a1, a2, b) ==
    <<WMod(U32Add(a1, FromNat(b))), WMod(U32Add(a2, a1))>>

\* s1 = (s1 + b) % MOD_ADLER; s2 = (s2 + s1) % MOD_ADLER;
ScalarFold(a1, a2, b) ==
    LET n1 == WMod(U32Add(a1, FromNat(b)))
    IN  <<n1, WMod(U32Add(a2, n1))>>

blockVars == <<blocks, remaining, block>>
neonVars == <<block_len, block_s1, block_s2, minuend, subtrahend>>

Init ==
    /\ input \in Inputs
    /\ sizeLimbs \in {2, 4}
    /\ pc = "simple_call"
    /\ s1 = Zero /\ s2 = Zero /\ i = 0 /\ len = 0
    /\ blocks = 0 /\ remaining = 0 /\ block = 0
    /\ block_len = 0
    /\ block_s1 = <<Zero, Zero, Zero, Zero>>
    /\ block_s2 = <<Zero, Zero, Zero, Zero>>
    /\ result = [e \in Engines |-> NoResult]
    /\ reads = [e \in Engines |-> 0]
    /\ wrapped = FALSE
    /\ minuend = Zero /\ subtrahend = Zero

(* ---------------- adler32_simple.c ---------------- *)

SimpleCall ==
    /\ pc = "simple_call"
    /\ s1' = FromNat(1) /\ s2' = FromNat(0)
    /\ i' = 0 /\ len' = input.len
    /\ pc' = "simple_loop"
    /\ UNCHANGED <<input, sizeLimbs, blockVars, neonVars, result, reads, wrapped>>

SimpleStep ==
    /\ pc = "simple_loop" /\ i < len
    /\ LET f == ScalarFold(s1, s2, Data(i))
       IN  s1' = f[1] /\ s2' = f[2]
    /\ i' = i + 1
    /\ reads' = [reads EXCEPT !["simple"] = @ + 1]
    /\ UNCHANGED <<input, sizeLimbs, pc, len, blockVars, neonVars, result, wrapped>>

SimpleReturn ==
    /\ pc = "simple_loop" /\ ~(i < len)
    /\ result' = [result EXCEPT !["simple"] = Pack(s2, s1)]
    /\ pc' = "block_call"
    /\ UNCHANGED <<input, sizeLimbs, s1, s2, i, len, blockVars, neonVars, reads, wrapped>>

(* ---------------- adler32_block.c ---------------- *)

\* block_data[k] with block_data = data + (block * BLOCK_SIZE)
BlockData(blk, k) == Data(blk * BLOCK_SIZE + k)
\* Fault variant of RemainingData: the tail is read from the start of the buffer.
RemainingDataFromStart(k) == Data(k)

\* remaining_data[k] with remaining_data = data + (blocks * BLOCK_SIZE)
RemainingData(k) == Data(blocks * BLOCK_SIZE + k)

\* Fault variant of Reduce: the reduction is left out.
ReduceSkipped(x) == x

\* s1 %= MOD_ADLER; s2 %= MOD_ADLER;
Reduce(x) == WMod(x)

\* s1 += b; s2 += s1;  (uint32_t, no reduction)
RawFold(a1, a2, b) ==
    LET n1 == U32Add(a1, FromNat(b))
    IN  <<n1, U32Add(a2, n1)>>
RawFoldCarry(a1, a2, b) ==
    U32Carry(a1, FromNat(b)) \/ U32Carry(a2, U32Add(a1, FromNat(b)))

BlockCall ==
    /\ pc = "block_call"
    /\ s1' = FromNat(1) /\ s2' = FromNat(0)
    /\ i' = 0 /\ len' = input.len
    /\ wrapped' = FALSE
    /\ IF input.len < SHORT_LEN
       THEN /\ pc' = "block_short"
            /\ UNCHANGED blockVars
       ELSE /\ blocks' = input.len \div BLOCK_SIZE
            /\ remaining' = input.len % BLOCK_SIZE
            /\ block' = 0
            /\ pc' = "block_outer"
    /\ UNCHANGED <<input, sizeLimbs, neonVars, result, reads>>

BlockShortStep ==
    /\ pc = "block_short" /\ i < len
    /\ LET f == ScalarFold(s1, s2, Data(i))
       IN  s1' = f[1] /\ s2' = f[2]
    /\ i' = i + 1
    /\ reads' = [reads EXCEPT !["block"] = @ + 1]
    /\ UNCHANGED <<input, sizeLimbs, pc, len, blockVars, neonVars, result, wrapped>>

BlockShortReturn ==
    /\ pc = "block_short" /\ ~(i < len)
    /\ pc' = "block_ret"
    /\ UNCHANGED <<input, sizeLimbs, s1, s2, i, len, blockVars, neonVars, result, reads,
                   wrapped>>

BlockEnter ==
    /\ pc = "block_outer" /\ block < blocks
    /\ i' = 0
    /\ pc' = "block_inner"
    /\ UNCHANGED <<input, sizeLimbs, s1, s2, len, blockVars, neonVars, result, reads,
                   wrapped>>

BlockStep ==
    /\ pc = "block_inner" /\ i < BLOCK_SIZE
    /\ LET f == RawFold(s1, s2, BlockData(block, i))
       IN  s1' = f[1] /\ s2' = f[2]
    /\ wrapped' = (wrapped \/ RawFoldCarry(s1, s2, BlockData(block, i)))
    /\ i' = i + 1
    /\ reads' = [reads EXCEPT !["block"] = @ + 1]
    /\ UNCHANGED <<input, sizeLimbs, pc, len, blockVars, neonVars, result>>

BlockReduce ==
    /\ pc = "block_inner" /\ ~(i < BLOCK_SIZE)
    /\ s1' = Reduce(s1) /\ s2' = Reduce(s2)
    /\ block' = block + 1
    /\ pc' = "block_outer"
    /\ UNCHANGED <<input, sizeLimbs, i, len, blocks, remaining, neonVars, result, reads,
                   wrapped>>

BlockLeave ==
    /\ pc = "block_outer" /\ ~(block < blocks)
    /\ i' = 0
    /\ pc' = "block_rem"
    /\ UNCHANGED <<input, sizeLimbs, s1, s2, len, blockVars, neonVars, result, reads,
                   wrapped>>

BlockRemStep ==
    /\ pc = "block_rem" /\ i < remaining
    /\ LET f == RawFold(s1, s2, RemainingData(i))
       IN  s1' = f[1] /\ s2' = f[2]
    /\ wrapped' = (wrapped \/ RawFoldCarry(s1, s2, RemainingData(i)))
    /\ i' = i + 1
    /\ reads' = [reads EXCEPT !["block"] = @ + 1]
    /\ UNCHANGED <<input, sizeLimbs, pc, len, blockVars, neonVars, result>>

BlockFinalMod ==
    /\ pc = "block_rem" /\ ~(i < remaining)
    /\ s1' = Reduce(s1) /\ s2' = Reduce(s2)
    /\ pc' = "block_ret"
    /\ UNCHANGED <<input, sizeLimbs, i, len, blockVars, neonVars, result, reads, wrapped>>

BlockReturn ==
    /\ pc = "block_ret"
    /\ result' = [result EXCEPT !["block"] = Pack(s2, s1)]
    /\ pc' = "neon_call"
    /\ UNCHANGED <<input, sizeLimbs, s1, s2, i, len, blockVars, neonVars, reads, wrapped>>

(* ---------------- adler32_neon.c ---------------- *)

ZeroLanes == <<Zero, Zero, Zero, Zero>>
Lanes == 1 .. 4

\* vld1q_u8(data + k): sixteen bytes, lane 1 the lowest address.
Load16(k) == [j \in 1 .. NEON_CHUNK_SIZE |-> Data(k + j - 1)]
\* v_data1 .. v_data4: bytes 4(g-1) .. 4(g-1)+3 widened to uint32 lanes.
Widen(v, g) == [j \in Lanes |-> FromNat(v[4 * (g - 1) + j])]
\* The multiplier vector applied to v_data1 .. v_data4.
GroupWeight == <<16, 12, 8, 4>>

\* vaddq_u32, vmulq_u32 against vdupq_n_u32(c), and a lost carry in any lane.
VAdd(a, b) == [j \in Lanes |-> U32Add(a[j], b[j])]
VMulN(a, c) == [j \in Lanes |-> U32Mul(a[j], c)]
VCarry(a, b) == \E j \in Lanes : U32Carry(a[j], b[j])

RECURSIVE AccS1(_, _, _)
\* block_s1 after adding v_data1 .. v_data_g
AccS1(acc, v, g) ==
    IF g = 0 THEN acc ELSE VAdd(AccS1(acc, v, g - 1), Widen(v, g))
RECURSIVE AccS2(_, _, _)
\* block_s2 after adding v_data1 * w1 .. v_data_g * w_g
AccS2(acc, v, g) ==
    IF g = 0 THEN acc
    ELSE VAdd(AccS2(acc, v, g - 1), VMulN(Widen(v, g), GroupWeight[g]))
ChunkCarry(a1, a2, v) ==
    \E g \in 1 .. 4 :
        \/ VCarry(AccS1(a1, v, g - 1), Widen(v, g))
        \/ VCarry(AccS2(a2, v, g - 1), VMulN(Widen(v, g), GroupWeight[g]))
        \/ \E j \in Lanes : WMulSmall(Widen(v, g)[j], GroupWeight[g])
                              # U32Mul(Widen(v, g)[j], GroupWeight[g])

\* vgetq_lane_u32(x, 0) + ... + vgetq_lane_u32(x, 3), in uint32_t
HSum(x) == U32Add(U32Add(U32Add(x[1], x[2]), x[3]), x[4])
HSumCarry(x) ==
    \/ U32Carry(x[1], x[2])
    \/ U32Carry(U32Add(x[1], x[2]), x[3])
    \/ U32Carry(U32Add(U32Add(x[1], x[2]), x[3]), x[4])

\* s2 + sum_s2 + BLOCK_SIZE * s1: uint32_t sum, then size_t arithmetic
Minuend(a1, a2, sum2, w) ==
    Trunc(WAdd(U32Add(a2, sum2), Trunc(WMulSmall(a1, NEON_BLOCK_SIZE), w)), w)
\* sum_s1 * (BLOCK_SIZE + 1) / 2 in size_t
Subtrahend(sum1, w) == WDiv2(Trunc(WMulSmall(sum1, NEON_BLOCK_SIZE + 1), w))
\* (minuend - subtrahend) % MOD_ADLER in size_t, stored to uint32_t
NeonS2(a1, a2, sum1, sum2, w) ==
    Trunc(WMod(Trunc(WSub(Minuend(a1, a2, sum2, w), Subtrahend(sum1, w)), w)), 2)

\* Fault variant of EmptyResult: the empty buffer yields 0.
EmptyResultZero == FromNat(0)

\* if (len == 0) return 1;
EmptyResult == FromNat(1)

NeonCall ==
    /\ pc = "neon_call"
    /\ len' = input.len
    /\ wrapped' = FALSE
    /\ IF input.len = 0
       THEN /\ result' = [result EXCEPT !["neon"] = EmptyResult]
            /\ pc' = "done"
            /\ UNCHANGED <<s1, s2, i>>
       ELSE /\ s1' = FromNat(1) /\ s2' = FromNat(0)
            /\ i' = 0
            /\ pc' = IF input.len >= VECTOR_MIN_LEN THEN "neon_outer" ELSE "neon_tail"
            /\ UNCHANGED result
    /\ UNCHANGED <<input, sizeLimbs, blockVars, neonVars, reads>>

NeonEnter ==
    /\ pc = "neon_outer" /\ len >= NEON_BLOCK_SIZE
    /\ block_len' = NEON_BLOCK_SIZE
    /\ block_s1' = ZeroLanes /\ block_s2' = ZeroLanes
    /\ pc' = "neon_inner"
    /\ UNCHANGED <<input, sizeLimbs, s1, s2, i, len, blockVars, minuend, subtrahend,
                   result, reads, wrapped>>

NeonChunk ==
    /\ pc = "neon_inner" /\ block_len >= NEON_CHUNK_SIZE
    /\ LET v_data == Load16(i)
       IN  /\ block_s1' = AccS1(block_s1, v_data, 4)
           /\ block_s2' = AccS2(block_s2, v_data, 4)
           /\ wrapped' = (wrapped \/ ChunkCarry(block_s1, block_s2, v_data))
    /\ i' = i + NEON_CHUNK_SIZE
    /\ block_len' = block_len - NEON_CHUNK_SIZE
    /\ reads' = [reads EXCEPT !["neon"] = @ + NEON_CHUNK_SIZE]
    /\ UNCHANGED <<input, sizeLimbs, pc, s1, s2, len, blockVars, minuend, subtrahend,
                   result>>

NeonReconcile ==
    /\ pc = "neon_inner" /\ ~(block_len >= NEON_CHUNK_SIZE)
    /\ LET sum_s1 == HSum(block_s1)
           sum_s2 == HSum(block_s2)
           new_s1 == WMod(U32Add(s1, sum_s1))
       IN  /\ s1' = new_s1
           /\ s2' = NeonS2(new_s1, s2, sum_s1, sum_s2, sizeLimbs)
           /\ minuend' = Minuend(new_s1, s2, sum_s2, sizeLimbs)
           /\ subtrahend' = Subtrahend(sum_s1, sizeLimbs)
           /\ wrapped' = (\/ wrapped
                          \/ HSumCarry(block_s1) \/ HSumCarry(block_s2)
                          \/ U32Carry(s1, sum_s1) \/ U32Carry(s2, sum_s2))
    /\ len' = len - NEON_BLOCK_SIZE
    /\ pc' = "neon_outer"
    /\ UNCHANGED <<input, sizeLimbs, i, blockVars, block_len, block_s1, block_s2,
                   result, reads>>

NeonLeave ==
    /\ pc = "neon_outer" /\ ~(len >= NEON_BLOCK_SIZE)
    /\ pc' = "neon_tail"
    /\ UNCHANGED <<input, sizeLimbs, s1, s2, i, len, blockVars, neonVars, result, reads,
                   wrapped>>

NeonTailStep ==
    /\ pc = "neon_tail" /\ i < len
    /\ LET f == ScalarFold(s1, s2, Data(i))
       IN  s1' = f[1] /\ s2' = f[2]
    /\ i' = i + 1
    /\ reads' = [reads EXCEPT !["neon"] = @ + 1]
    /\ UNCHANGED <<input, sizeLimbs, pc, len, blockVars, neonVars, result, wrapped>>

NeonTailExit ==
    /\ pc = "neon_tail" /\ ~(i < len)
    /\ pc' = "neon_ret"
    /\ UNCHANGED <<input, sizeLimbs, s1, s2, i, len, blockVars, neonVars, result, reads,
                   wrapped>>

NeonReturn ==
    /\ pc = "neon_ret"
    /\ result' = [result EXCEPT !["neon"] = Pack(s2, s1)]
    /\ pc' = "done"
    /\ UNCHANGED <<input, sizeLimbs, s1, s2, i, len, blockVars, neonVars, reads, wrapped>>

Next ==
    \/ SimpleCall
    \/ SimpleStep
    \/ SimpleReturn
    \/ BlockCall
    \/ BlockShortStep
    \/ BlockShortReturn
    \/ BlockEnter
    \/ BlockStep
    \/ BlockReduce
    \/ BlockLeave
    \/ BlockRemStep
    \/ BlockFinalMod
    \/ BlockReturn
    \/ NeonCall
    \/ NeonEnter
    \/ NeonChunk
    \/ NeonReconcile
    \/ NeonLeave
    \/ NeonTailStep
    \/ NeonTailExit
    \/ NeonReturn

Spec == Init /\ [][Next]_vars

(* ---------------- properties ---------------- *)

\* The value of a uint32_t known to be below 2^31.
ToNat(x) == x[1] + Base * x[2]
\* A uint32_t holding a reduced accumulator: 0 <= x < 65521.
Reduced(x) == x[1] < MOD_ADLER /\ x[2] = 0 /\ x[3] = 0 /\ x[4] = 0
\* The uint32_t whose high half is hi and whose low half is lo.
Halves(hi, lo) == <<lo, hi, 0, 0>>
Returned(e) == result[e] # NoResult
BlockPcs == {"block_short", "block_outer", "block_inner", "block_rem", "block_ret",
             "neon_call"}
NeonPcs == {"neon_outer", "neon_inner", "neon_tail", "neon_ret"}
\* The engine whose return statement is the next step, if any.
AtReturn(e) ==
    \/ e = "simple" /\ pc = "simple_loop" /\ ~(i < len)
    \/ e = "block" /\ pc = "block_ret"
    \/ e = "neon" /\ pc = "neon_ret"

RECURSIVE SumTo(_, _)
\* f(0) + ... + f(n - 1)
SumTo(f(_), n) == IF n = 0 THEN 0 ELSE SumTo(f, n - 1) + f(n - 1)
LaneTotal(x) == ToNat(x[1]) + ToNat(x[2]) + ToNat(x[3]) + ToNat(x[4])

\* C1: for every buffer the vector engine returns the same packed value as the
\* scalar engine.
C1_VectorEqualsScalar ==
    Returned("neon") => result["neon"] = result["simple"]

\* C2: for every buffer the block-batched engine returns the same packed value as
\* the scalar engine.
C2_BlockEqualsScalar ==
    Returned("block") => result["block"] = result["simple"]
C2_Witness ==
    /\ Returned("block")
    /\ input.kind = "pattern" /\ input.stride = 1
    /\ blocks = MaxBlocks /\ remaining = 1

\* C3: in the block-batched engine no uint32_t addition s1 += byte or s2 += s1
\* loses a carry, whatever the block holds, and the buffer of 5552 bytes of 255
\* yields the scalar engine's value.
C3_NoWrapBeforeReduction ==
    /\ pc \in BlockPcs => ~wrapped
    /\ (/\ Returned("block")
        /\ input.kind = "pattern" /\ input.len = BLOCK_SIZE
        /\ input.base = 255 /\ input.stride = 0)
       => result["block"] = result["simple"]
\* The second block of the saturating buffer is entered with s1 = s2 = 65520 and
\* ends, before reduction, with s2 = 4294690200 = 65531 * 2^16 + 50584.
C3_Witness ==
    /\ pc = "block_inner" /\ i = BLOCK_SIZE /\ block = 1
    /\ input.kind = "saturating"
    /\ s2 = <<50584, 65531, 0, 0>>
    /\ ~wrapped

\* C4: when an engine returns, s1 and s2 are both below 65521 and the value
\* returned has s2 as its high 16 bits and s1 as its low 16 bits (the vector
\* engine's early return for the empty buffer gives the packed seed).
C4_ReducedAndPacked ==
    [][/\ \A e \in Engines :
            AtReturn(e) => /\ Reduced(s1) /\ Reduced(s2)
                           /\ result'[e] = Halves(s2[1], s1[1])
       /\ (pc = "neon_call" /\ input.len = 0) => result'["neon"] = Halves(0, 1)]_vars
C4_Witness ==
    /\ pc = "done"
    /\ input.len > BLOCK_SIZE
    /\ \A e \in Engines : result[e][2] >= Base \div 2 /\ result[e][1] # result[e][2]

\* C5: for the empty buffer every engine returns 1 and loads no input byte.
C5_EmptyReturnsSeed ==
    input.len = 0 =>
        \A e \in Engines : /\ reads[e] = 0
                           /\ Returned(e) => result[e] = Halves(0, 1)
C5_Witness ==
    /\ input.len = 0
    /\ pc = "done"
    /\ \A e \in Engines : Returned(e)

\* C6: every engine returns 0x11E60398 for "Wikipedia" and 0x00420042 for the
\* single byte 65.
C6_KnownVectors ==
    \A e \in Engines :
        Returned(e) =>
            /\ input.kind = "wikipedia"
                   => result[e] = Halves(1 * 4096 + 1 * 256 + 14 * 16 + 6,
                                         0 * 4096 + 3 * 256 + 9 * 16 + 8)
            /\ (input.kind = "pattern" /\ input.len = 1 /\ input.base = 65)
                   => result[e] = Halves(4 * 16 + 2, 4 * 16 + 2)
C6_Witness ==
    /\ input.kind = "wikipedia"
    /\ pc = "done"
    /\ \A e \in Engines : Returned(e) /\ reads[e] = Len(Wikipedia)

\* C7: when the vector engine returns for a buffer of at least 5552 bytes, every
\* input byte has been consumed, by a vector chunk or by the scalar tail loop.
C7_TailConsumed ==
    (Returned("neon") /\ input.len >= NEON_BLOCK_SIZE) => reads["neon"] = input.len

\* C8: a 16-byte chunk adds to block_s2, summed over the lanes, the sum of
\* byte[k] * (16 - k) for k = 0..15, and to block_s1 the plain sum of its bytes.
C8_PositionalWeights ==
    [][(pc = "neon_inner" /\ block_len >= NEON_CHUNK_SIZE) =>
         LET byte(k) == Data(i + k)
             weighted(k) == byte(k) * (NEON_CHUNK_SIZE - k)
         IN  /\ LaneTotal(block_s1') - LaneTotal(block_s1)
                  = SumTo(byte, NEON_CHUNK_SIZE)
             /\ LaneTotal(block_s2') - LaneTotal(block_s2)
                  = SumTo(weighted, NEON_CHUNK_SIZE)]_vars

\* C9: after a super-block, s1 = (s1_entering + block_s1) mod 65521 and
\* s2 = (s2 + block_s2 + block_len * s1_entering
\*        - block_s1 * (block_len + 1) / 2) mod 65521,
\* with s1_entering the value of s1 before the block.
C9_Reconciliation ==
    [][(pc = "neon_inner" /\ ~(block_len >= NEON_CHUNK_SIZE)) =>
         LET sum1 == HSum(block_s1)
             sum2 == HSum(block_s2)
             plus == (ToNat(s2) + ToNat(sum2) + NEON_BLOCK_SIZE * ToNat(s1)) % MOD_ADLER
             minus == ToNat(WMod(WDiv2(WMulSmall(sum1, NEON_BLOCK_SIZE + 1))))
         IN  /\ s1' = FromNat((ToNat(s1) + ToNat(sum1)) % MOD_ADLER)
             /\ s2' = FromNat((plus + MOD_ADLER - minus) % MOD_ADLER)]_vars

\* C10: in the vector engine's reconciliation the subtracted term
\* sum_s1 * (BLOCK_SIZE + 1) / 2 never exceeds s2 + sum_s2 + BLOCK_SIZE * s1, and
\* no uint32_t lane of block_s1 or block_s2 loses a carry.
C10_NoUnderflow ==
    pc \in NeonPcs => /\ WLeq(subtrahend, minuend)
                      /\ ~wrapped

====
